---- MODULE Spec2Model ----
(***************************************************************************)
(* Model of tools/chaos_demo.py: the Lorenz simulator (RK4 integrator,     *)
(* bounded trajectory list, rotating projection with auto-fit) and the     *)
(* rasterizer of create_watchy_frame_pil.                                  *)
(*                                                                         *)
(* Numbers.  Python floats are modelled exactly where the code only adds,  *)
(* multiplies, divides and compares (projection, auto-fit, clamp, pixel    *)
(* test): a coordinate is a reduced fraction <<n, d>> with d > 0.  The     *)
(* integrator works on fixed-point integers with Scale units per 1.0 and   *)
(* floor division, cos/sin on fixed-point integers with TrigScale units    *)
(* per 1.0, and the rotation angle on integers with AngleScale units per   *)
(* radian.  Rounding of IEEE doubles is not modelled.                      *)
(*                                                                         *)
(* Objects.  numpy arrays are heap objects: heap maps an address to the    *)
(* array's value, self.pos and the entries of self.trajectory are          *)
(* addresses, "+=" writes the heap in place and ".copy()" allocates.       *)
(***************************************************************************)
EXTENDS Integers, Sequences, FiniteSets, TLC

VARIABLES
    heap,      \* address -> <<x, y, z>>: the live numpy arrays
    sim,       \* simulator id -> [pos, trajectory, rotation_angle] (object fields)
    pc,        \* simulator id -> position of its caller in create_watchy_frame_pil
    i,         \* simulator id -> iterations done of the loop of simulate_frame
    frame,     \* simulator id -> frames produced so far
    screen,    \* simulator id -> last result of get_screen_coordinates
    img,       \* simulator id -> black pixels of the last frame buffer
    states,    \* history: simulator id -> the values of pos after each update_lorenz
    pushed,    \* history: simulator id -> the values handed to add_trajectory_point
    log,       \* history: simulator id -> operations run in the current frame
    num_frames, \* the number of frames the caller asks each simulator for
    factor     \* <<n, d>>: simulator 2's trajectory is simulator 1's times n/d

vars == <<heap, sim, pc, i, frame, screen, img, states, pushed, log, num_frames, factor>>

(***************************************************************************)
(* Bounds of the model.                                                    *)
(***************************************************************************)
MaxFrames == 33
MaxFramesTwo == 1
MaxLen == 3

(***************************************************************************)
(* Resolution of the fixed-point numbers.                                  *)
(***************************************************************************)
Scale == 100
TrigScale == 100
AngleScale == 1000000

(***************************************************************************)
(* Program constants.                                                      *)
(***************************************************************************)
sigma == 10
rho == 28
BetaNum == 8
BetaDen == 3
DtNum == 5
DtDen == 100
max_points == 300
StepsPerFrame == 50
TWO_PI == 6283185
PI == 3141592
HALF_PI == 1570796
FitExtent == 80
ViewCenter == 100
ClipLo == 5
ClipHi == 195
ImageSize == 200
EpsDen == 10

\* 0.2 rad, the rotation per frame.
RotInc == AngleScale \div 5

(***************************************************************************)
(* Fractions.                                                              *)
(***************************************************************************)
Abs(n) == IF n < 0 THEN -n ELSE n

RECURSIVE Gcd(_, _)
Gcd(a, b) == IF b = 0 THEN a ELSE Gcd(b, a % b)

Rat(n, d) ==
    LET sgn == IF d < 0 THEN -1 ELSE 1
        g == Gcd(Abs(n), Abs(d))
    IN  <<(sgn * n) \div g, (sgn * d) \div g>>

RInt(n) == <<n, 1>>
RAdd(a, b) == Rat(a[1] * b[2] + b[1] * a[2], a[2] * b[2])
RSub(a, b) == Rat(a[1] * b[2] - b[1] * a[2], a[2] * b[2])
RMul(a, b) == Rat(a[1] * b[1], a[2] * b[2])
\* a <= b, compared by integer parts and then, Euclid's way, by the
\* reciprocals of the fractional parts: no product of denominators is formed.
RECURSIVE RLeq(_, _)
RLeq(a, b) ==
    LET fa == a[1] \div a[2]
        fb == b[1] \div b[2]
        ra == a[1] % a[2]
        rb == b[1] % b[2]
    IN  IF fa # fb THEN fa < fb
        ELSE IF ra = 0 THEN TRUE
        ELSE IF rb = 0 THEN FALSE
        ELSE RLeq(<<b[2], rb>>, <<a[2], ra>>)

RLess(a, b) == ~RLeq(b, a)
RMin(a, b) == IF RLess(b, a) THEN b ELSE a
\* Python's int(): truncation toward zero.
PyInt(a) == IF a[1] >= 0 THEN a[1] \div a[2] ELSE -((-a[1]) \div a[2])

(***************************************************************************)
(* The integrator.                                                         *)
(***************************************************************************)
VAdd(p, q) == <<p[1] + q[1], p[2] + q[2], p[3] + q[3]>>
VMulDiv(k, n, d) == <<(k[1] * n) \div d, (k[2] * n) \div d, (k[3] * n) \div d>>

lorenz_derivative(p) ==
    LET x == p[1]
        y == p[2]
        z == p[3]
    IN  <<sigma * (y - x),
          (x * (rho * Scale - z)) \div Scale - y,
          (x * y) \div Scale - (BetaNum * z) \div BetaDen>>

\* The value "self.pos += ..." leaves in the array whose value was p.
update_lorenz(p) ==
    LET k1 == lorenz_derivative(p)
        k2 == lorenz_derivative(VAdd(p, VMulDiv(k1, DtNum, 2 * DtDen)))
        k3 == lorenz_derivative(VAdd(p, VMulDiv(k2, DtNum, 2 * DtDen)))
        k4 == lorenz_derivative(VAdd(p, VMulDiv(k3, DtNum, DtDen)))
        sum == VAdd(VAdd(k1, VMulDiv(k2, 2, 1)), VAdd(VMulDiv(k3, 2, 1), k4))
    IN  VAdd(p, VMulDiv(sum, DtNum, 6 * DtDen))

(***************************************************************************)
(* math.cos and math.sin on fixed-point angles: range reduction to         *)
(* [0, pi/2] and the Taylor polynomial of degree 8, in thousandths.        *)
(***************************************************************************)
CosQ(m) ==
    LET x == m \div 1000
        x2 == (x * x) \div 1000
        x4 == (x2 * x2) \div 1000
        x6 == (x4 * x2) \div 1000
        x8 == (x6 * x2) \div 1000
        c == 1000 - x2 \div 2 + x4 \div 24 - x6 \div 720 + x8 \div 40320
    IN  (c * TrigScale + 500) \div 1000

Cos(a) ==
    LET m == a % TWO_PI
        f == IF m > PI THEN TWO_PI - m ELSE m
    IN  IF f > HALF_PI THEN -CosQ(PI - f) ELSE CosQ(f)

Sin(a) == Cos(a + TWO_PI - HALF_PI)

(***************************************************************************)
(* The heap.                                                               *)
(***************************************************************************)
Sims == DOMAIN sim

\* Mutant of NewPos: one array made once (a class attribute or a default
\* argument) and shared by every simulator.
NewPos_shared(s) == <<1, 0>>

\* Address of the array __init__ creates for simulator s.
NewPos(s) == <<s, 0>>

\* Address of the array self.pos.copy() creates at the k-th push of s.
NewCopy(s, k) == <<s, k>>

Referenced(sm) ==
    {sm[s].pos : s \in DOMAIN sm}
        \cup UNION {{sm[s].trajectory[k] : k \in 1..Len(sm[s].trajectory)} : s \in DOMAIN sm}

\* CPython frees an array when the last reference to it goes.
Collect(h, sm) == [a \in Referenced(sm) |-> h[a]]

TrajValues(s) == [k \in 1..Len(sim[s].trajectory) |-> heap[sim[s].trajectory[k]]]

(***************************************************************************)
(* Histories: how many values were recorded, and the last HistWindow of    *)
(* them (more than the trajectory can hold and one frame adds).            *)
(***************************************************************************)
HistWindow == max_points + StepsPerFrame + 1

NoHistory == [n |-> 0, last |-> << >>]

Remember(h, v) ==
    [n |-> h.n + 1,
     last |-> IF Len(h.last) < HistWindow THEN Append(h.last, v) ELSE Append(Tail(h.last), v)]

\* The q-th value recorded, for h.n - Len(h.last) < q <= h.n.
At(h, q) == h.last[Len(h.last) - (h.n - q)]

Remembered(h, q) == h.n - Len(h.last) < q /\ q <= h.n

(***************************************************************************)
(* LorenzSimulator.__init__                                                *)
(***************************************************************************)
LorenzSimulator(s) ==
    [pos |-> NewPos(s), trajectory |-> << >>, rotation_angle |-> 0]

InitialPos == <<Scale, Scale, Scale>>

InitSims(ids, n) ==
    /\ num_frames = n
    /\ sim = [s \in ids |-> LorenzSimulator(s)]
    /\ heap = [a \in {NewPos(s) : s \in ids} |-> InitialPos]
    /\ pc = [s \in ids |-> "update"]
    /\ i = [s \in ids |-> 0]
    /\ frame = [s \in ids |-> 0]
    /\ screen = [s \in ids |-> << >>]
    /\ img = [s \in ids |-> {}]
    /\ states = [s \in ids |-> NoHistory]
    /\ pushed = [s \in ids |-> NoHistory]
    /\ log = [s \in ids |-> << >>]
    /\ factor = <<1, 1>>

Init == InitSims({1}, MaxFrames)

(***************************************************************************)
(* simulate_frame, one statement at a time.                                *)
(***************************************************************************)
UpdateLorenz(s) ==
    /\ pc[s] = "update"
    /\ LET v == update_lorenz(heap[sim[s].pos])
       IN  /\ heap' = [heap EXCEPT ![sim[s].pos] = v]
           /\ states' = [states EXCEPT ![s] = Remember(@, v)]
    /\ pc' = [pc EXCEPT ![s] = "add"]
    /\ log' = [log EXCEPT ![s] = IF i[s] = 0 THEN <<"update">> ELSE Append(@, "update")]
    /\ UNCHANGED <<sim, i, frame, screen, img, pushed, num_frames, factor>>

\* Mutant of pos_copy: "self.trajectory.append(self.pos)", no copy.
pos_alias(s) == sim[s].pos

\* The reference add_trajectory_point appends: self.pos.copy().
pos_copy(s) == NewCopy(s, pushed[s].n + 1)

\* Mutant of add_trajectory_point: "pop()" for "pop(0)", the newest evicted.
add_trajectory_point_pop_last(traj, ref) ==
    IF Len(traj) < max_points
    THEN Append(traj, ref)
    ELSE Append(SubSeq(traj, 1, Len(traj) - 1), ref)

\* The list add_trajectory_point leaves, given the reference it appends.
add_trajectory_point(traj, ref) ==
    IF Len(traj) < max_points
    THEN Append(traj, ref)
    ELSE Append(Tail(traj), ref)

\* Mutant of after_push: one iteration too many.
after_push_off_by_one(n) == IF n <= StepsPerFrame THEN "update" ELSE "rotate"

\* for _ in range(50): where control goes after the n-th iteration's push.
after_push(n) == IF n < StepsPerFrame THEN "update" ELSE "rotate"

AddTrajectoryPoint(s) ==
    /\ pc[s] = "add"
    /\ LET ref == pos_copy(s)
           v == heap[sim[s].pos]
           sm == [sim EXCEPT ![s].trajectory = add_trajectory_point(@, ref)]
           h == [a \in DOMAIN heap \cup {ref} |-> IF a = ref THEN v ELSE heap[a]]
       IN  /\ sim' = sm
           /\ heap' = Collect(h, sm)
           /\ pushed' = [pushed EXCEPT ![s] = Remember(@, v)]
    /\ i' = [i EXCEPT ![s] = @ + 1]
    /\ pc' = [pc EXCEPT ![s] = after_push(i[s] + 1)]
    /\ log' = [log EXCEPT ![s] = Append(@, "add")]
    /\ UNCHANGED <<frame, screen, img, states, num_frames, factor>>

\* Mutant of rotate_view: the comparison of the wrap turned round.
rotate_view_inverted(a) ==
    LET b == a + RotInc
    IN  IF b < TWO_PI THEN b - TWO_PI ELSE b

\* self.rotation_angle after the "Rotate view" statements.
rotate_view(a) ==
    LET b == a + RotInc
    IN  IF b > TWO_PI THEN b - TWO_PI ELSE b

Rotate(s) ==
    /\ pc[s] = "rotate"
    /\ sim' = [sim EXCEPT ![s].rotation_angle = rotate_view(@)]
    /\ pc' = [pc EXCEPT ![s] = "project"]
    /\ log' = [log EXCEPT ![s] = Append(@, "rotate")]
    /\ UNCHANGED <<heap, i, frame, screen, img, states, pushed, num_frames, factor>>

(***************************************************************************)
(* get_screen_coordinates.  Projected coordinates are integers in units    *)
(* of 1/(Scale*TrigScale); screen coordinates are fractions of a pixel.    *)
(***************************************************************************)
ProjUnit == Scale * TrigScale

project_3d_to_2d(point_3d, angle) ==
    LET cos_rot == Cos(angle)
        sin_rot == Sin(angle)
    IN  <<point_3d[1] * cos_rot - point_3d[3] * sin_rot, point_3d[2] * TrigScale>>

SetMin(S) == CHOOSE m \in S : \A v \in S : m <= v
SetMax(S) == CHOOSE m \in S : \A v \in S : v <= m

\* Mutant of floor_range: the epsilon typed as 1.0.
floor_range_wide(r) == IF r < ProjUnit THEN ProjUnit ELSE r

\* "if range_x < 0.1: range_x = 0.1"
floor_range(r) ==
    LET eps == ProjUnit \div EpsDen
    IN  IF r < eps THEN eps ELSE r

\* Mutant of fit_scale: max for min.
fit_scale_max(range_x, range_y) ==
    LET scale_x == Rat(FitExtent, range_x)
        scale_y == Rat(FitExtent, range_y)
    IN  IF RLess(scale_x, scale_y) THEN scale_y ELSE scale_x

\* scale = min(80.0 / range_x, 80.0 / range_y)
fit_scale(range_x, range_y) ==
    LET scale_x == Rat(FitExtent, range_x)
        scale_y == Rat(FitExtent, range_y)
    IN  RMin(scale_x, scale_y)

\* Mutant of projected_points: the loop runs over reversed(self.trajectory).
projected_points_reversed(traj, angle) ==
    [k \in 1..Len(traj) |-> project_3d_to_2d(traj[Len(traj) + 1 - k], angle)]

\* The points of the trajectory the projection loop visits.
projected_points(traj, angle) ==
    [k \in 1..Len(traj) |-> project_3d_to_2d(traj[k], angle)]

\* screen_x, screen_y before the clamp, zipped.
screen_raw(traj, angle) ==
    LET screen_points == projected_points(traj, angle)
        xs == {screen_points[k][1] : k \in 1..Len(screen_points)}
        ys == {screen_points[k][2] : k \in 1..Len(screen_points)}
        min_x == SetMin(xs)
        max_x == SetMax(xs)
        min_y == SetMin(ys)
        max_y == SetMax(ys)
        range_x == floor_range(max_x - min_x)
        range_y == floor_range(max_y - min_y)
        scale == fit_scale(range_x, range_y)
        center_x == Rat(min_x + max_x, 2)
        center_y == Rat(min_y + max_y, 2)
    IN  [k \in 1..Len(screen_points) |->
            <<RAdd(RMul(RSub(RInt(screen_points[k][1]), center_x), scale), RInt(ViewCenter)),
              RAdd(RMul(RSub(RInt(screen_points[k][2]), center_y), scale), RInt(ViewCenter))>>]

\* np.clip on one value.
clip(v, lo, hi) ==
    IF RLess(v, RInt(lo)) THEN RInt(lo)
    ELSE IF RLess(RInt(hi), v) THEN RInt(hi)
    ELSE v

get_screen_coordinates(traj, angle) ==
    IF Len(traj) = 0
    THEN << >>
    ELSE LET raw == screen_raw(traj, angle)
         IN  [k \in 1..Len(raw) |->
                 <<clip(raw[k][1], ClipLo, ClipHi), clip(raw[k][2], ClipLo, ClipHi)>>]

GetScreenCoordinates(s) ==
    /\ pc[s] = "project"
    /\ screen' = [screen EXCEPT ![s] = get_screen_coordinates(TrajValues(s), sim[s].rotation_angle)]
    /\ pc' = [pc EXCEPT ![s] = "raster"]
    /\ log' = [log EXCEPT ![s] = Append(@, "project")]
    /\ UNCHANGED <<heap, sim, i, frame, img, states, pushed, num_frames, factor>>

(***************************************************************************)
(* The rasterizer of create_watchy_frame_pil: the set of pixels it turns   *)
(* black on the white image.  The overlay (texts, battery) is left out.    *)
(***************************************************************************)
stroke_offsets == (-1..1) \X (-1..1)

\* Mutant of current_offsets: range(-2, 2).
current_offsets_short == (-2..1) \X (-2..1)

current_offsets == (-2..2) \X (-2..2)

\* "if 0 <= x + dx < 200" on a screen coordinate.
InImageR(v) == RLeq(RInt(0), v) /\ RLess(v, RInt(ImageSize))

\* The same test on the integer current_x + dx.
InImage(n) == 0 <= n /\ n < ImageSize

\* The 3x3 loop for one point.
stroke_pixels(pt) ==
    {<<PyInt(RAdd(pt[1], RInt(d[1]))), PyInt(RAdd(pt[2], RInt(d[2])))>> :
        d \in {e \in stroke_offsets :
                 InImageR(RAdd(pt[1], RInt(e[1]))) /\ InImageR(RAdd(pt[2], RInt(e[2])))}}

\* Mutant of current_point: screen_x[0], screen_y[0].
current_point_first(scr) == scr[1]

\* screen_x[-1], screen_y[-1]
current_point(scr) == scr[Len(scr)]

\* The 5x5 loop.
current_pixels(pt) ==
    LET current_x == PyInt(pt[1])
        current_y == PyInt(pt[2])
    IN  {<<current_x + d[1], current_y + d[2]>> :
            d \in {e \in current_offsets :
                     InImage(current_x + e[1]) /\ InImage(current_y + e[2])}}

rasterize(scr) ==
    UNION {stroke_pixels(scr[k]) : k \in 1..Len(scr)}
        \cup (IF Len(scr) > 0 THEN current_pixels(current_point(scr)) ELSE {})

\* for frame in range(num_frames): the caller after the n-th frame.
next_call(n) == IF n < num_frames THEN "update" ELSE "done"

Rasterize(s) ==
    /\ pc[s] = "raster"
    /\ img' = [img EXCEPT ![s] = rasterize(screen[s])]
    /\ frame' = [frame EXCEPT ![s] = @ + 1]
    /\ i' = [i EXCEPT ![s] = 0]
    /\ pc' = [pc EXCEPT ![s] = next_call(frame[s] + 1)]
    /\ log' = [log EXCEPT ![s] = Append(@, "raster")]
    /\ UNCHANGED <<heap, sim, screen, states, pushed, num_frames, factor>>

(***************************************************************************)
(* One simulator, called frame after frame.                                *)
(***************************************************************************)
Next ==
    \/ UpdateLorenz(1)
    \/ AddTrajectoryPoint(1)
    \/ Rotate(1)
    \/ GetScreenCoordinates(1)
    \/ Rasterize(1)

Spec == Init /\ [][Next]_vars

(***************************************************************************)
(* Claims checked under Spec.                                              *)
(***************************************************************************)
Min(a, b) == IF a < b THEN a ELSE b

\* C1: after n calls of add_trajectory_point the trajectory holds exactly the
\* last min(n, 300) recorded points, oldest first; its length never exceeds
\* 300 and is 300 whenever n >= 300.
C1_LastPointsKept ==
    \A s \in Sims :
        LET n == pushed[s].n
            m == Min(n, max_points)
        IN  /\ Len(sim[s].trajectory) = m
            /\ Len(sim[s].trajectory) <= max_points
            /\ n >= max_points => Len(sim[s].trajectory) = max_points
            /\ TrajValues(s) = [k \in 1..m |-> At(pushed[s], n - m + k)]

\* C1 witness: more than 300 points were pushed, so the oldest were evicted.
C1_Witness ==
    /\ pushed[1].n > max_points + StepsPerFrame
    /\ Len(sim[1].trajectory) = max_points
    /\ At(pushed[1], pushed[1].n - max_points) # heap[sim[1].trajectory[1]]

\* C2: a recorded point is a copy: update_lorenz, which rewrites the array of
\* self.pos in place, changes no recorded point, and the k-th retained point
\* is the state right after the integration step that produced it.
C2_PointsAreSnapshots ==
    /\ [](\A s \in Sims :
            LET off == pushed[s].n - Len(sim[s].trajectory)
            IN  \A k \in 1..Len(sim[s].trajectory) :
                    /\ sim[s].trajectory[k] # sim[s].pos
                    /\ heap[sim[s].trajectory[k]] = At(states[s], off + k))
    /\ [][\A s \in Sims :
            (pc[s] = "update" /\ pc'[s] = "add") =>
                /\ sim'[s].trajectory = sim[s].trajectory
                /\ \A k \in 1..Len(sim[s].trajectory) :
                       heap'[sim[s].trajectory[k]] = heap[sim[s].trajectory[k]]]_vars

\* C2 witness: update_lorenz has rewritten pos after a point was recorded,
\* and the recorded point differs from the new state.
C2_Witness ==
    /\ pc[1] = "add"
    /\ Len(sim[1].trajectory) = max_points
    /\ heap[sim[1].pos] # heap[sim[1].trajectory[max_points]]

\* Calls of simulate_frame that have returned.
FramesSimulated(s) == frame[s] + (IF pc[s] \in {"project", "raster"} THEN 1 ELSE 0)

\* ceil(2 pi / 0.2)
WrapCalls == (TWO_PI + RotInc - 1) \div RotInc

\* C3: from angle 0, the angle is in [0, 2 pi) after every simulate_frame,
\* each call adds 0.2 and subtracts 2 pi at most once, and after
\* ceil(2 pi / 0.2) = 32 calls the angle has wrapped.
C3_RotationWraps ==
    /\ [](\A s \in Sims :
            /\ 0 <= sim[s].rotation_angle
            /\ sim[s].rotation_angle < TWO_PI
            /\ FramesSimulated(s) < WrapCalls =>
                   sim[s].rotation_angle = FramesSimulated(s) * RotInc
            /\ FramesSimulated(s) >= WrapCalls =>
                   sim[s].rotation_angle < FramesSimulated(s) * RotInc
            /\ FramesSimulated(s) = WrapCalls =>
                   sim[s].rotation_angle = WrapCalls * RotInc - TWO_PI)
    /\ [][\A s \in Sims :
            \/ sim'[s].rotation_angle = sim[s].rotation_angle
            \/ /\ pc[s] = "rotate"
               /\ \/ sim'[s].rotation_angle = sim[s].rotation_angle + RotInc
                  \/ sim'[s].rotation_angle = sim[s].rotation_angle + RotInc - TWO_PI]_vars

\* C3 witness: the 32nd simulate_frame has returned and the angle has wrapped.
C3_Witness ==
    /\ WrapCalls = 32
    /\ FramesSimulated(1) = WrapCalls
    /\ sim[1].rotation_angle < RotInc

RECURSIVE Repeat(_, _)
Repeat(seq, n) == IF n = 0 THEN << >> ELSE seq \o Repeat(seq, n - 1)

\* The operations of one frame, in order.
FrameLog == Repeat(<<"update", "add">>, StepsPerFrame) \o <<"rotate", "project", "raster">>

IsPrefix(a, b) == Len(a) <= Len(b) /\ a = SubSeq(b, 1, Len(a))

\* A frame has just been returned.
FrameReturned(s) == pc[s] \in {"update", "done"} /\ i[s] = 0 /\ frame[s] >= 1

\* The angle after n rotations from 0.
RECURSIVE AngleAfter(_)
AngleAfter(n) == IF n = 0 THEN 0 ELSE rotate_view(AngleAfter(n - 1))

\* C5: a frame is 50 (integration step, push) pairs, then one rotation, then
\* one projection and one rasterization; frame k starts from what frame k-1
\* left, is projected with the angle already advanced, and sees a trajectory
\* of min(50 k, 300) points.
C5_FrameOrder ==
    \A s \in Sims :
        /\ IsPrefix(log[s], FrameLog)
        /\ FrameReturned(s) =>
              LET k == frame[s]
              IN  /\ log[s] = FrameLog
                  /\ states[s].n = StepsPerFrame * k
                  /\ pushed[s].n = StepsPerFrame * k
                  /\ At(states[s], StepsPerFrame * (k - 1) + 1) =
                         update_lorenz(IF k = 1 THEN InitialPos
                                       ELSE At(states[s], StepsPerFrame * (k - 1)))
                  /\ sim[s].rotation_angle = AngleAfter(k)
                  /\ Len(sim[s].trajectory) = Min(StepsPerFrame * k, max_points)
                  /\ Len(screen[s]) = Min(StepsPerFrame * k, max_points)
                  /\ screen[s] = get_screen_coordinates(TrajValues(s), AngleAfter(k))

\* C5 witness: the seventh frame was returned, drawn from a full trajectory.
C5_Witness ==
    /\ FrameReturned(1)
    /\ frame[1] = 7
    /\ Len(screen[1]) = max_points
    /\ log[1] = FrameLog

\* The h-block around pixel c.
Block(c, h) == {<<c[1] + dx, c[2] + dy>> : dx \in -h..h, dy \in -h..h}

\* The pixels of a set that are pixels of the image.
InBounds(S) == {q \in S : q[1] \in 0..(ImageSize - 1) /\ q[2] \in 0..(ImageSize - 1)}

RFloor(a) == a[1] \div a[2]

\* The rounded-down pixel of a screen point.
FloorPixel(pt) == <<RFloor(pt[1]), RFloor(pt[2])>>

\* C9: the pixels set are exactly the in-bounds 3x3 blocks around the
\* rounded-down coordinate of every projected point and the in-bounds 5x5
\* block around that of the last one; the whole 5x5 block of the last point
\* is set whatever overlaps it, and no pixel outside 0..199 is written.
C9_PixelsAreBlocks ==
    \A s \in Sims :
        FrameReturned(s) =>
            LET scr == screen[s]
                last == FloorPixel(scr[Len(scr)])
            IN  /\ Len(scr) > 0
                /\ img[s] = InBounds(UNION {Block(FloorPixel(scr[k]), 1) : k \in 1..Len(scr)})
                                \cup InBounds(Block(last, 2))
                /\ InBounds(Block(last, 2)) \subseteq img[s]
                /\ img[s] = InBounds(img[s])

\* C9 witness: a frame of 300 points whose strokes overlap each other and
\* the block of the last point.
C9_Witness ==
    /\ FrameReturned(1)
    /\ Len(screen[1]) = max_points
    /\ Cardinality(img[1]) < 9 * max_points
    /\ \E k \in 1..(max_points - 1) :
           /\ FloorPixel(screen[1][k]) # FloorPixel(screen[1][max_points])
           /\ Block(FloorPixel(screen[1][k]), 1)
                  \cap Block(FloorPixel(screen[1][max_points]), 2) # {}

(***************************************************************************)
(* Two simulators in one process, their callers interleaved.               *)
(***************************************************************************)
InitTwo == InitSims({1, 2}, MaxFramesTwo)

NextTwo ==
    \E s \in {1, 2} :
        \/ UpdateLorenz(s)
        \/ AddTrajectoryPoint(s)
        \/ Rotate(s)
        \/ GetScreenCoordinates(s)
        \/ Rasterize(s)

SpecTwo == InitTwo /\ [][NextTwo]_vars

\* C8: two independent simulators started from (1,1,1) go through the same
\* states, step for step, however their calls are interleaved; each state is
\* update_lorenz of the one before and of nothing else; at the same point of
\* the same frame their trajectories, angles and frames are equal.
C8_Deterministic ==
    /\ \A a, b \in Sims :
           /\ \A q \in 1..Min(states[a].n, states[b].n) :
                  (Remembered(states[a], q) /\ Remembered(states[b], q)) =>
                      At(states[a], q) = At(states[b], q)
           /\ (pc[a] = pc[b] /\ i[a] = i[b] /\ frame[a] = frame[b]) =>
                  /\ heap[sim[a].pos] = heap[sim[b].pos]
                  /\ TrajValues(a) = TrajValues(b)
                  /\ sim[a].rotation_angle = sim[b].rotation_angle
                  /\ screen[a] = screen[b]
                  /\ img[a] = img[b]
    /\ \A s \in Sims :
           LET n == states[s].n
           IN  n >= 1 =>
                  At(states[s], n) =
                      update_lorenz(IF n = 1 THEN InitialPos ELSE At(states[s], n - 1))

\* C8 witness: both simulators have returned a frame, one after the other's
\* steps, and the state has moved away from the initial one.
C8_Witness ==
    /\ Sims = {1, 2}
    /\ FrameReturned(1) /\ FrameReturned(2)
    /\ states[1].n = StepsPerFrame /\ states[2].n = StepsPerFrame
    /\ heap[sim[2].pos] # InitialPos
    /\ img[1] # {}

(***************************************************************************)
(* The projector and the rasterizer on arbitrary inputs: simulator 1       *)
(* holds any trajectory of at most MaxLen points at any of the angles,     *)
(* simulator 2 the same trajectory with every raw point times factor.      *)
(***************************************************************************)
Points == {<<0, 0, 0>>, <<4, 2, 0>>, <<16, 8, 2>>, <<-200, 300, 500>>}
Angles == {0, 1200000, 4000000}
Factors == {<<-1, 1>>, <<0, 1>>, <<1, 2>>, <<2, 1>>}

InitProj ==
    \E n \in 1..MaxLen, a \in Angles, c \in Factors :
        \E T \in [1..n -> Points] :
            LET val(s, k) == IF s = 1 THEN T[k] ELSE VMulDiv(T[k], c[1], c[2])
            IN  /\ sim = [s \in {1, 2} |->
                          [pos |-> NewPos(s),
                           trajectory |-> [k \in 1..n |-> NewCopy(s, k)],
                           rotation_angle |-> a]]
                /\ heap = [ad \in {1, 2} \X (0..n) |->
                              val(ad[1], IF ad[2] = 0 THEN n ELSE ad[2])]
                /\ states = [s \in {1, 2} |-> [n |-> n, last |-> [k \in 1..n |-> val(s, k)]]]
                /\ pushed = [s \in {1, 2} |-> [n |-> n, last |-> [k \in 1..n |-> val(s, k)]]]
                /\ factor = c
                /\ pc = [s \in {1, 2} |-> "project"]
                /\ i = [s \in {1, 2} |-> 0]
                /\ frame = [s \in {1, 2} |-> 0]
                /\ screen = [s \in {1, 2} |-> << >>]
                /\ img = [s \in {1, 2} |-> {}]
                /\ log = [s \in {1, 2} |-> << >>]
                /\ num_frames = 1

\* One caller: the frame of simulator 1, then the frame of simulator 2.
NextProj ==
    \/ GetScreenCoordinates(1)
    \/ Rasterize(1)
    \/ (pc[1] = "done" /\ GetScreenCoordinates(2))
    \/ Rasterize(2)

SpecProj == InitProj /\ [][NextProj]_vars

\* screen[s] is the projection of the trajectory s holds.
ScreenCurrent(s) == pc[s] \in {"raster", "done"}

\* get_screen_coordinates has just returned to the caller of s.
JustProjected(s) == pc[s] = "raster"

InClip(v) == RLeq(RInt(ClipLo), v) /\ RLeq(v, RInt(ClipHi))

\* C4: for a non-empty trajectory and any angle, get_screen_coordinates
\* returns one pair per buffered point, in trajectory order (the k-th pair
\* is the image of the k-th point: the map is monotone in each axis), each
\* coordinate in [5, 195].
C4_OnePairPerPoint ==
    \A s \in Sims :
        JustProjected(s) =>
            LET traj == TrajValues(s)
                pts == [k \in 1..Len(traj) |-> project_3d_to_2d(traj[k], sim[s].rotation_angle)]
                scr == screen[s]
            IN  /\ Len(traj) > 0
                /\ Len(scr) = Len(traj)
                /\ \A k \in 1..Len(scr) : InClip(scr[k][1]) /\ InClip(scr[k][2])
                /\ \A j, k \in 1..Len(scr) :
                       /\ pts[j][1] <= pts[k][1] => RLeq(scr[j][1], scr[k][1])
                       /\ pts[j][2] <= pts[k][2] => RLeq(scr[j][2], scr[k][2])

\* C4 witness: three points projected to three different places.
C4_Witness ==
    /\ pc[1] = "raster"
    /\ Len(screen[1]) = 3
    /\ Cardinality({screen[1][k] : k \in 1..3}) = 3
    /\ sim[1].rotation_angle # 0

\* C6: a trajectory of one point, whatever the point and the angle, gives a
\* frame whose black pixels are the 25 pixels of one 5x5 block, the 3x3
\* stroke inside it.
C6_SinglePointBlock ==
    \A s \in Sims :
        (pc[s] = "done" /\ Len(sim[s].trajectory) = 1) =>
            /\ Cardinality(img[s]) = 25
            /\ \E c \in img[s] : img[s] = Block(c, 2)
            /\ stroke_pixels(screen[s][1]) \subseteq img[s]
            /\ Cardinality(stroke_pixels(screen[s][1])) = 9
            /\ img[s] = InBounds(img[s])

\* C6 witness: the frame of a single point away from the origin, rotated.
C6_Witness ==
    /\ pc[1] = "done"
    /\ Len(sim[1].trajectory) = 1
    /\ heap[sim[1].trajectory[1]] = <<-200, 300, 500>>
    /\ sim[1].rotation_angle # 0
    /\ img[1] # {}

\* The larger of the two extents of the projected trajectory of s.
Extent(s) ==
    LET pts == projected_points(TrajValues(s), sim[s].rotation_angle)
        xs == {pts[k][1] : k \in 1..Len(pts)}
        ys == {pts[k][2] : k \in 1..Len(pts)}
        ex == SetMax(xs) - SetMin(xs)
        ey == SetMax(ys) - SetMin(ys)
    IN  IF ex < ey THEN ey ELSE ex

\* The epsilon floor does not decide the scale of s.
FitDecidesScale(s) == Extent(s) = 0 \/ Extent(s) * EpsDen >= ProjUnit

\* C7 as claimed: for any factor, the trajectory with every raw point
\* multiplied by it projects to the same coordinates.
C7_AnyFactor ==
    (ScreenCurrent(1) /\ ScreenCurrent(2)) => screen[1] = screen[2]

\* C7 amended: the same for a factor greater than 0, when on both
\* trajectories the projected points coincide or their larger extent is
\* at least the epsilon 0.1.
C7_PositiveFactor ==
    (/\ ScreenCurrent(1) /\ ScreenCurrent(2)
     /\ factor[1] > 0
     /\ FitDecidesScale(1) /\ FitDecidesScale(2))
        => screen[1] = screen[2]

\* C7 witness: a trajectory of several places, halved, both projected.
C7_Witness ==
    /\ ScreenCurrent(1) /\ ScreenCurrent(2)
    /\ factor = <<1, 2>>
    /\ FitDecidesScale(1) /\ FitDecidesScale(2)
    /\ Extent(2) > 0
    /\ TrajValues(1) # TrajValues(2)
    /\ Cardinality({screen[1][k] : k \in 1..Len(screen[1])}) = 3

====
